---- MODULE Spec2Model ----
(***************************************************************************)
(* ApprovalController (src/app/scripts/controllers/approval.js, the class  *)
(* exported at lines 406-750): the registry of pending approvals.          *)
(*                                                                         *)
(* State of one controller:                                                *)
(*   approvals  this._approvals, a Map; its entries in insertion order     *)
(*   origins    this._origins, an object of objects: origin -> its types   *)
(*   store      this.store.getState().pendingApprovals: id -> info         *)
(*   handles    the promises created by _add, in creation order            *)
(* and of the callers that await its promises (they act in FairSpec only): *)
(*   awaiting   the promise that each consumer awaits, 0 for none          *)
(*   observed   what each consumer's await has returned or thrown          *)
(*                                                                         *)
(* The ids, origins and types of the calls that make the behaviours are    *)
(* strings that name no property of Object.prototype ("toString",          *)
(* "__proto__", ...).  For such a key a read of this._origins[origin] or   *)
(* of the store object finds the inherited property; the model describes   *)
(* this for the type in this._origins[origin]?.[type] (OriginHasType) and  *)
(* not for ids and origins.  Values passed to resolve are not thenables.   *)
(***************************************************************************)
EXTENDS Naturals, Sequences, FiniteSets, TLC

VARIABLES approvals, origins, store, handles, awaiting, observed

vars == <<approvals, origins, store, handles, awaiting, observed>>

\* Number of promises one behaviour creates (each add that passes its checks
\* creates one).
MaxHandles == 3

\* Number of promises of a behaviour in which consumers await them.
MaxAwaited == 2

----------------------------------------------------------------------------
\* JavaScript values

Undefined == "<undefined>"
Null == "<null>"
PlainObject == "{foo:'bar'}"
MutatedObject == "{foo:'changed'}"
ArrayValue == "['foo']"
StringValue == "'foo'"
Zero == "0"

\* ToBoolean of the values above and of strings.
Truthy(v) == v \notin {Undefined, Null, Zero, ""}

TypeOf(v) ==
  IF v = Undefined THEN "undefined"
  ELSE IF v \in {PlainObject, MutatedObject, ArrayValue, Null} THEN "object"
  ELSE IF v = Zero THEN "number"
  ELSE "string"

IsArray(v) == v = ArrayValue

DEFAULT_TYPE == "Symbol(DEFAULT_APPROVAL_TYPE)"

\* Callers' arguments
Ids == {"foo", "fizz"}
Origins == {"bar.baz", "fizz.buzz"}
Types == {"myType", "myType2"}

\* Strings that name a property of Object.prototype.
ObjectPrototypeKeys == {"toString", "constructor"}

\* Type strings a caller can pass: the ones above, the description of the
\* default type's symbol, and a property name of Object.prototype.
TypeStrings == Types \cup {"DEFAULT_APPROVAL_TYPE", "toString"}
Values == {"success"}

\* The consumers that await promises returned by add, and what a consumer
\* holds until its reaction has run.
Consumers == {"c1", "c2"}
NotObserved == [state |-> "pending", value |-> Undefined]

\* What the constructor is given as showApprovalRequest: a function that
\* returns, a function that throws, or nothing.  The option is assigned once
\* and read by addAndShowApprovalRequest alone.
ShowApprovalRequests == {"returns", "throws", Undefined}
Errors == {"failure"}

IdArgs == Ids \cup {Undefined, Null}
OriginArgs == Origins \cup {Undefined, ""}
TypeArgs == Types \cup {Undefined, Null}
RequestDataArgs == {Undefined, PlainObject, ArrayValue, StringValue, Zero}

\* nanoid() returns a string; nothing in _add keeps it apart from pending ids.
NanoIds == Ids

----------------------------------------------------------------------------
\* Errors

\* The message of an error is the sequence of the strings and values that its
\* text is made of.
NoError == [code |-> "none", message |-> <<>>]
PlainError(m) == [code |-> "Error", message |-> m]
InternalError(m) == [code |-> "internal", message |-> m]
ResourceUnavailable(m) == [code |-> "resourceUnavailable", message |-> m]

FalsyIdError == InternalError(<<"May not specify falsy id.">>)
MissingOriginError == InternalError(<<"Must specify origin.">>)
IdCollisionError == InternalError(<<"Approval with id '${id}' already exists.">>)
FalsyTypeError == InternalError(<<"May not specify falsy type.">>)
InvalidRequestDataError ==
  InternalError(<<"Request data must be a plain object if specified.">>)
NotFoundError == PlainError(<<"Approval with id '${id}' not found.">>)
NotAFunctionError ==
  [code |-> "TypeError", message |-> <<"this._showApprovalRequest is not a function">>]
ShowApprovalRequestError == [code |-> "thrown by showApprovalRequest", message |-> <<>>]

\* A message that names the type whatever it is.
PendingMessageNamingType(origin, type) ==
  <<"Request ", "of type '", type, "' ", "already pending for origin ", origin,
    ". Please wait.">>

getAlreadyPendingMessage(origin, type) ==
  <<"Request ">>
    \o (IF type = DEFAULT_TYPE THEN <<>> ELSE <<"of type '", type, "' ">>)
    \o <<"already pending for origin ", origin, ". Please wait.">>

----------------------------------------------------------------------------
\* The controller as a value.  An operation maps the controller before a call
\* to the controller after it, with the outcome of the call:
\*   error      the error thrown to the caller, or NoError
\*   handle     the promise returned (add) or settled (resolve, reject)
\*   deletes    the calls of _delete: the id given and whether it was in the Map
\*   pubs       what a subscriber of the store saw at each putState
\*   shows      what showApprovalRequest found at each of its invocations

State ==
  [approvals |-> approvals, origins |-> origins, store |-> store,
   handles |-> handles,
   error |-> NoError, handle |-> 0, deletes |-> <<>>, pubs |-> <<>>,
   shows |-> <<>>]

ApprovalIds(S) == {S.approvals[i].id : i \in 1..Len(S.approvals)}

\* this._approvals.has(id)
ApprovalsHas(S, id) == id \in ApprovalIds(S)

\* this._approvals.get(id)
ApprovalsGet(S, id) ==
  LET i == CHOOSE j \in 1..Len(S.approvals) : S.approvals[j].id = id
  IN S.approvals[i]

\* this._approvals.delete(id)
ApprovalsDelete(S, id) ==
  [S EXCEPT !.approvals = SelectSeq(@, LAMBDA a : a.id # id)]

Restrict(f, keys) == [k \in keys |-> f[k]]

PendingHandles(S) == {h \in 1..Len(S.handles) : S.handles[h].state = "pending"}

\* this.store.putState: the subscribers are notified synchronously.
PutState(S, newStore) ==
  [S EXCEPT !.store = newStore,
            !.pubs = Append(@, [store |-> DOMAIN newStore,
                                primary |-> ApprovalIds(S),
                                pending |-> PendingHandles(S)])]

\* A check of the origin index that allows one approval per origin.
OriginHasAnyType(S, origin, type) == origin \in DOMAIN S.origins

\* A check of the origin index that knows the default type only.
OriginHasDefaultType(S, origin, type) ==
  origin \in DOMAIN S.origins /\ DEFAULT_TYPE \in S.origins[origin]

\* Boolean(this._origins[origin]?.[type]): the types of an origin are the
\* keys of an object literal, which inherits the properties of
\* Object.prototype, all of them truthy.
OriginHasType(S, origin, type) ==
  /\ origin \in DOMAIN S.origins
  /\ type \in S.origins[origin] \/ type \in ObjectPrototypeKeys

\* An index update that starts the origin's types anew.
OverwritePendingApprovalOrigin(S, origin, type) ==
  [S EXCEPT !.origins = [o \in DOMAIN S.origins \cup {origin} |->
                           IF o = origin THEN {type} ELSE S.origins[o]]]

_addPendingApprovalOrigin(S, origin, type) ==
  IF origin \notin DOMAIN S.origins
    THEN [S EXCEPT !.origins = [o \in DOMAIN S.origins \cup {origin} |->
                                  IF o = origin THEN {type} ELSE S.origins[o]]]
    ELSE [S EXCEPT !.origins[origin] = @ \cup {type}]

\* The info object of _addToStore: { id, origin }, then type, then requestData.
Info(id, origin, type, requestData) ==
  LET base == [k \in {"id", "origin"} |-> IF k = "id" THEN id ELSE origin]
      withType == IF type # DEFAULT_TYPE
                    THEN [k \in DOMAIN base \cup {"type"} |->
                            IF k = "type" THEN type ELSE base[k]]
                    ELSE base
  IN IF Truthy(requestData)
       THEN [k \in DOMAIN withType \cup {"requestData"} |->
               IF k = "requestData" THEN requestData ELSE withType[k]]
       ELSE withType

\* A projection update that publishes the new entry without the others.
AddToEmptyStore(S, id, origin, type, requestData) ==
  PutState(S, [k \in {id} |-> Info(id, origin, type, requestData)])

_addToStore(S, id, origin, type, requestData) ==
  PutState(S, [k \in DOMAIN S.store \cup {id} |->
                 IF k = id THEN Info(id, origin, type, requestData)
                 ELSE S.store[k]])

\* A validation that looks at the type before it looks up the id.
ValidateTypeBeforeId(S, id, origin, type, requestData) ==
  IF ~Truthy(id) /\ id # Undefined THEN FalsyIdError
  ELSE IF ~Truthy(origin) THEN MissingOriginError
  ELSE IF ~Truthy(type) THEN FalsyTypeError
  ELSE IF ApprovalsHas(S, id) THEN IdCollisionError
  ELSE IF Truthy(requestData)
            /\ (TypeOf(requestData) # "object" \/ IsArray(requestData))
    THEN InvalidRequestDataError
  ELSE NoError

\* A validation that looks up the id before it looks at the origin.
ValidateIdBeforeOrigin(S, id, origin, type, requestData) ==
  IF ~Truthy(id) /\ id # Undefined THEN FalsyIdError
  ELSE IF ApprovalsHas(S, id) THEN IdCollisionError
  ELSE IF ~Truthy(origin) THEN MissingOriginError
  ELSE IF ~Truthy(type) THEN FalsyTypeError
  ELSE IF Truthy(requestData)
            /\ (TypeOf(requestData) # "object" \/ IsArray(requestData))
    THEN InvalidRequestDataError
  ELSE NoError

_validateAddParams(S, id, origin, type, requestData) ==
  IF ~Truthy(id) /\ id # Undefined THEN FalsyIdError
  ELSE IF ~Truthy(origin) THEN MissingOriginError
  ELSE IF ApprovalsHas(S, id) THEN IdCollisionError
  ELSE IF ~Truthy(type) THEN FalsyTypeError
  ELSE IF Truthy(requestData)
          /\ (TypeOf(requestData) # "object" \/ IsArray(requestData))
    THEN InvalidRequestDataError
  ELSE NoError

\* The promise executor of _add (lines 594-598).  The Map keeps the callbacks
\* of promise h; origin and type are kept beside them as the arguments the
\* entry was added with.
AddExecutor(S, h, id, origin, type, requestData) ==
  LET s1 == [S EXCEPT !.approvals =
                 Append(@, [id |-> id, h |-> h, origin |-> origin, type |-> type])]
      s2 == _addPendingApprovalOrigin(s1, origin, type)
  IN _addToStore(s2, id, origin, type, requestData)

\* An _add that registers the approval and then finds the pair pending.
AddThenCheckPair(S, idArg, nano, origin, typeArg, requestData) ==
  LET id == IF idArg = Undefined THEN nano ELSE idArg
      type == IF typeArg = Undefined THEN DEFAULT_TYPE ELSE typeArg
      err == _validateAddParams(S, id, origin, type, requestData)
      h == Len(S.handles) + 1
      s1 == AddExecutor([S EXCEPT !.handles = Append(@, [state |-> "pending",
                                                         value |-> Undefined]),
                                  !.handle = h],
                        h, id, origin, type, requestData)
  IN IF err # NoError THEN [S EXCEPT !.error = err]
     ELSE IF OriginHasType(S, origin, type)
       THEN [s1 EXCEPT !.error =
               ResourceUnavailable(getAlreadyPendingMessage(origin, type))]
     ELSE s1

\* An _add that looks for the pair in the origin index before it validates.
AddPairFirst(S, idArg, nano, origin, typeArg, requestData) ==
  LET id == IF idArg = Undefined THEN nano ELSE idArg
      type == IF typeArg = Undefined THEN DEFAULT_TYPE ELSE typeArg
      err == _validateAddParams(S, id, origin, type, requestData)
      h == Len(S.handles) + 1
  IN IF OriginHasType(S, origin, type)
       THEN [S EXCEPT !.error =
               ResourceUnavailable(getAlreadyPendingMessage(origin, type))]
     ELSE IF err # NoError THEN [S EXCEPT !.error = err]
     ELSE AddExecutor(
            [S EXCEPT !.handles = Append(@, [state |-> "pending", value |-> Undefined]),
                      !.handle = h],
            h, id, origin, type, requestData)

\* An _add whose parameters have no default values.
AddWithoutDefaults(S, idArg, nano, origin, typeArg, requestData) ==
  LET err == _validateAddParams(S, idArg, origin, typeArg, requestData)
      h == Len(S.handles) + 1
  IN IF err # NoError THEN [S EXCEPT !.error = err]
     ELSE IF OriginHasType(S, origin, typeArg)
       THEN [S EXCEPT !.error =
               ResourceUnavailable(getAlreadyPendingMessage(origin, typeArg))]
     ELSE AddExecutor(
            [S EXCEPT !.handles = Append(@, [state |-> "pending", value |-> Undefined]),
                      !.handle = h],
            h, idArg, origin, typeArg, requestData)

\* An _add that returns a promise rejected with the error instead of
\* throwing it.
AddRejecting(S, idArg, nano, origin, typeArg, requestData) ==
  LET id == IF idArg = Undefined THEN nano ELSE idArg
      type == IF typeArg = Undefined THEN DEFAULT_TYPE ELSE typeArg
      err == _validateAddParams(S, id, origin, type, requestData)
      h == Len(S.handles) + 1
      Rejected(e) == [S EXCEPT !.handles = Append(@, [state |-> "rejected", value |-> e]),
                               !.handle = h]
  IN IF err # NoError THEN Rejected(err)
     ELSE IF OriginHasType(S, origin, type)
       THEN Rejected(ResourceUnavailable(getAlreadyPendingMessage(origin, type)))
     ELSE AddExecutor(
            [S EXCEPT !.handles = Append(@, [state |-> "pending", value |-> Undefined]),
                      !.handle = h],
            h, id, origin, type, requestData)

\* An _add that asks for another id when the generated one is pending.
AddRetrying(S, idArg, nano, origin, typeArg, requestData) ==
  LET free == Ids \ ApprovalIds(S)
      id == IF idArg # Undefined THEN idArg
            ELSE IF ApprovalsHas(S, nano) /\ free # {} THEN CHOOSE i \in free : TRUE
            ELSE nano
      type == IF typeArg = Undefined THEN DEFAULT_TYPE ELSE typeArg
      err == _validateAddParams(S, id, origin, type, requestData)
      h == Len(S.handles) + 1
  IN IF err # NoError THEN [S EXCEPT !.error = err]
     ELSE IF OriginHasType(S, origin, type)
       THEN [S EXCEPT !.error =
               ResourceUnavailable(getAlreadyPendingMessage(origin, type))]
     ELSE AddExecutor(
            [S EXCEPT !.handles = Append(@, [state |-> "pending", value |-> Undefined]),
                      !.handle = h],
            h, id, origin, type, requestData)

\* _add(id = nanoid(), origin, type = DEFAULT_TYPE, requestData)
_add(S, idArg, nano, origin, typeArg, requestData) ==
  LET id == IF idArg = Undefined THEN nano ELSE idArg
      type == IF typeArg = Undefined THEN DEFAULT_TYPE ELSE typeArg
      err == _validateAddParams(S, id, origin, type, requestData)
      h == Len(S.handles) + 1
  IN IF err # NoError THEN [S EXCEPT !.error = err]
     ELSE IF OriginHasType(S, origin, type)
       THEN [S EXCEPT !.error =
               ResourceUnavailable(getAlreadyPendingMessage(origin, type))]
     ELSE AddExecutor(
            [S EXCEPT !.handles = Append(@, [state |-> "pending", value |-> Undefined]),
                      !.handle = h],
            h, id, origin, type, requestData)

\* add({ id, origin, type, requestData })
add(S, id, nano, origin, type, requestData) ==
  _add(S, id, nano, origin, type, requestData)

\* this._showApprovalRequest(): the callback finds the controller as S.
InvokeShowApprovalRequest(S) ==
  [S EXCEPT !.shows = Append(@, [approvals |-> S.approvals, origins |-> S.origins,
                                 store |-> S.store, handles |-> S.handles])]

\* An addAndShowApprovalRequest that opens the confirmation UI first and adds
\* the approval after that.
ShowThenAdd(S, showApprovalRequest, id, nano, origin, type, requestData) ==
  IF showApprovalRequest = Undefined THEN [S EXCEPT !.error = NotAFunctionError]
  ELSE IF showApprovalRequest = "throws"
    THEN [InvokeShowApprovalRequest(S) EXCEPT !.error = ShowApprovalRequestError]
  ELSE _add(InvokeShowApprovalRequest(S), id, nano, origin, type, requestData)

\* addAndShowApprovalRequest({ id, origin, type, requestData }) of a controller
\* built with this showApprovalRequest.  When the callback is missing or
\* throws, the promise that _add created is returned to nobody.
addAndShowApprovalRequest(S, showApprovalRequest, id, nano, origin, type, requestData) ==
  LET s1 == _add(S, id, nano, origin, type, requestData) IN
  IF s1.error # NoError THEN s1
  ELSE IF showApprovalRequest = Undefined
    THEN [s1 EXCEPT !.error = NotAFunctionError, !.handle = 0]
  ELSE IF showApprovalRequest = "throws"
    THEN [InvokeShowApprovalRequest(s1) EXCEPT !.error = ShowApprovalRequestError,
                                               !.handle = 0]
  ELSE InvokeShowApprovalRequest(s1)

\* An emptiness test by Object.keys alone, which lists no symbol key.
IsEmptyOriginByKeys(S, origin) ==
  \/ origin \notin DOMAIN S.origins
  \/ S.origins[origin] \ {DEFAULT_TYPE} = {}

_isEmptyOrigin(S, origin) ==
  \/ origin \notin DOMAIN S.origins
  \/ /\ DEFAULT_TYPE \notin S.origins[origin]
     /\ S.origins[origin] \ {DEFAULT_TYPE} = {}

\* A _delete that removes the whole origin key of the approval.
DeleteWholeOrigin(S, id) ==
  LET S0 == [S EXCEPT !.deletes =
                 Append(@, [id |-> id, present |-> ApprovalsHas(S, id)])] IN
  IF ~Truthy(id) THEN [S0 EXCEPT !.error = PlainError(<<"Expected id to be specified.">>)]
  ELSE IF ~ApprovalsHas(S0, id) THEN S0
  ELSE
    LET s1 == ApprovalsDelete(S0, id)
        state == s1.store
        origin == IF id \in DOMAIN state THEN state[id].origin ELSE Undefined
        s2 == [s1 EXCEPT !.origins = Restrict(@, DOMAIN @ \ {origin})]
    IN PutState(s2, Restrict(state, DOMAIN state \ {id}))

\* A _delete that leaves the origin key in place when its last type goes.
DeleteLeavingOrigin(S, id) ==
  LET S0 == [S EXCEPT !.deletes =
                 Append(@, [id |-> id, present |-> ApprovalsHas(S, id)])] IN
  IF ~Truthy(id) THEN [S0 EXCEPT !.error = PlainError(<<"Expected id to be specified.">>)]
  ELSE IF ~ApprovalsHas(S0, id) THEN S0
  ELSE
    LET s1 == ApprovalsDelete(S0, id)
        state == s1.store
        known == id \in DOMAIN state
        origin == IF known THEN state[id].origin ELSE Undefined
        type == IF known /\ "type" \in DOMAIN state[id]
                  THEN state[id].type ELSE DEFAULT_TYPE
        s2 == IF origin \in DOMAIN s1.origins
                THEN [s1 EXCEPT !.origins[origin] = @ \ {type}]
                ELSE s1
    IN PutState(s2, Restrict(state, DOMAIN state \ {id}))

\* A _delete that removes the approval from the Map and the projection and
\* leaves the origin index alone.
DeleteLeavingType(S, id) ==
  LET S0 == [S EXCEPT !.deletes =
                 Append(@, [id |-> id, present |-> ApprovalsHas(S, id)])] IN
  IF ~Truthy(id) THEN [S0 EXCEPT !.error = PlainError(<<"Expected id to be specified.">>)]
  ELSE IF ~ApprovalsHas(S0, id) THEN S0
  ELSE
    LET s1 == ApprovalsDelete(S0, id)
        state == s1.store
    IN PutState(s1, Restrict(state, DOMAIN state \ {id}))

\* A _delete that takes an id that is not in the Map for an error.
DeleteExpectingApproval(S, id) ==
  LET S0 == [S EXCEPT !.deletes =
                 Append(@, [id |-> id, present |-> ApprovalsHas(S, id)])] IN
  IF ~Truthy(id) THEN [S0 EXCEPT !.error = PlainError(<<"Expected id to be specified.">>)]
  ELSE IF ~ApprovalsHas(S0, id) THEN [S0 EXCEPT !.error = NotFoundError]
  ELSE
    LET s1 == ApprovalsDelete(S0, id)
        state == s1.store
        known == id \in DOMAIN state
        origin == IF known THEN state[id].origin ELSE Undefined
        type == IF known /\ "type" \in DOMAIN state[id]
                  THEN state[id].type ELSE DEFAULT_TYPE
        s2 == IF origin \in DOMAIN s1.origins
                THEN [s1 EXCEPT !.origins[origin] = @ \ {type}]
                ELSE s1
        s3 == IF _isEmptyOrigin(s2, origin)
                THEN [s2 EXCEPT !.origins = Restrict(@, DOMAIN @ \ {origin})]
                ELSE s2
    IN PutState(s3, Restrict(state, DOMAIN state \ {id}))

_delete(S, id) ==
  LET S0 == [S EXCEPT !.deletes =
                 Append(@, [id |-> id, present |-> ApprovalsHas(S, id)])] IN
  IF ~Truthy(id) THEN [S0 EXCEPT !.error = PlainError(<<"Expected id to be specified.">>)]
  ELSE IF ~ApprovalsHas(S0, id) THEN S0
  ELSE
    LET s1 == ApprovalsDelete(S0, id)
        state == s1.store
        known == id \in DOMAIN state
        origin == IF known THEN state[id].origin ELSE Undefined
        type == IF known /\ "type" \in DOMAIN state[id]
                  THEN state[id].type ELSE DEFAULT_TYPE
        s2 == IF origin \in DOMAIN s1.origins
                THEN [s1 EXCEPT !.origins[origin] = @ \ {type}]
                ELSE s1
        s3 == IF _isEmptyOrigin(s2, origin)
                THEN [s2 EXCEPT !.origins = Restrict(@, DOMAIN @ \ {origin})]
                ELSE s2
    IN PutState(s3, Restrict(state, DOMAIN state \ {id}))

\* A lookup of the callbacks that deletes nothing.
GetCallbacks(S, id) ==
  IF ~ApprovalsHas(S, id)
    THEN [S EXCEPT !.error = NotFoundError]
    ELSE [S EXCEPT !.handle = ApprovalsGet(S, id).h]

\* A lookup of the callbacks that calls _delete before it looks up the id.
DeleteThenGetCallbacks(S, id) ==
  LET s1 == _delete(S, id) IN
  IF s1.error # NoError THEN s1
  ELSE IF ~ApprovalsHas(S, id) THEN [s1 EXCEPT !.error = NotFoundError]
  ELSE [s1 EXCEPT !.handle = ApprovalsGet(S, id).h]

_deleteApprovalAndGetCallbacks(S, id) ==
  IF ~ApprovalsHas(S, id)
    THEN [S EXCEPT !.error = NotFoundError]
    ELSE [_delete(S, id) EXCEPT !.handle = ApprovalsGet(S, id).h]

\* Callbacks that settle every pending promise, not the one they belong to.
SettleEveryPending(S, h, outcome, value) ==
  [S EXCEPT !.handles = [k \in 1..Len(S.handles) |->
                           IF S.handles[k].state = "pending"
                             THEN [state |-> outcome, value |-> value]
                             ELSE S.handles[k]]]

\* An outcome that is the first promise's, whichever promise is awaited.
OutcomeOfFirst(S, h) == S.handles[1]

\* What a consumer that awaits promise h is handed once h is settled: the
\* value it was fulfilled with, or the error it was rejected with.
Outcome(S, h) == S.handles[h]

\* The resolve and reject functions of a promise act on a pending promise only.
Settle(S, h, outcome, value) ==
  IF S.handles[h].state = "pending"
    THEN [S EXCEPT !.handles[h] = [state |-> outcome, value |-> value]]
    ELSE S

\* A resolve that settles the promise and leaves the approval in place.
SettleWithoutDeleting(S, id, value) ==
  LET s1 == GetCallbacks(S, id)
  IN IF s1.error # NoError THEN s1 ELSE Settle(s1, s1.handle, "fulfilled", value)

\* A resolve that deletes the approval and leaves its promise alone.
DeleteWithoutSettling(S, id, value) == _deleteApprovalAndGetCallbacks(S, id)

resolve(S, id, value) ==
  LET s1 == _deleteApprovalAndGetCallbacks(S, id)
  IN IF s1.error # NoError THEN s1 ELSE Settle(s1, s1.handle, "fulfilled", value)

reject(S, id, error) ==
  LET s1 == _deleteApprovalAndGetCallbacks(S, id)
  IN IF s1.error # NoError THEN s1 ELSE Settle(s1, s1.handle, "rejected", error)

\* for (const id of this._approvals.keys()) { this.reject(id) }: the iterator
\* of a Map goes on to the next entry that is still in the Map.
RECURSIVE ClearLoop(_)
ClearLoop(S) ==
  IF S.approvals = <<>> \/ S.error # NoError THEN S
  ELSE ClearLoop(reject(S, Head(S.approvals).id, Undefined))

\* A clear that takes an empty registry for an error.
ClearExpectingApprovals(S) ==
  IF S.approvals = <<>> THEN [S EXCEPT !.error = NotFoundError]
  ELSE PutState([ClearLoop(S) EXCEPT !.origins = <<>>, !.handle = 0], <<>>)

\* A clear that empties the three structures and rejects nothing.
ClearWithoutReject(S) ==
  PutState([S EXCEPT !.approvals = <<>>, !.origins = <<>>, !.handle = 0], <<>>)

clear(S) ==
  LET s1 == ClearLoop(S) IN
  IF s1.error # NoError THEN s1
  ELSE PutState([s1 EXCEPT !.origins = <<>>, !.handle = 0], <<>>)

\* A has that looks at the origin before it looks at the id.
HasOriginFirst(S, id, origin, typeArg) ==
  LET type == IF typeArg = Undefined THEN DEFAULT_TYPE ELSE typeArg IN
  IF ~Truthy(type) THEN [error |-> PlainError(<<"May not specify falsy type.">>), value |-> FALSE]
  ELSE IF Truthy(origin) THEN [error |-> NoError, value |-> OriginHasType(S, origin, type)]
  ELSE IF Truthy(id) THEN [error |-> NoError, value |-> ApprovalsHas(S, id)]
  ELSE [error |-> PlainError(<<"Must specify id or origin.">>), value |-> FALSE]

\* A has that looks at the type only when it needs it.
HasIdFirst(S, id, origin, typeArg) ==
  LET type == IF typeArg = Undefined THEN DEFAULT_TYPE ELSE typeArg IN
  IF Truthy(id) THEN [error |-> NoError, value |-> ApprovalsHas(S, id)]
  ELSE IF ~Truthy(origin)
    THEN [error |-> PlainError(<<"Must specify id or origin.">>), value |-> FALSE]
  ELSE IF ~Truthy(type)
    THEN [error |-> PlainError(<<"May not specify falsy type.">>), value |-> FALSE]
  ELSE [error |-> NoError, value |-> OriginHasType(S, origin, type)]

\* has({ id, origin, type = DEFAULT_TYPE })
has(S, id, origin, typeArg) ==
  LET type == IF typeArg = Undefined THEN DEFAULT_TYPE ELSE typeArg IN
  IF ~Truthy(type)
    THEN [error |-> PlainError(<<"May not specify falsy type.">>), value |-> FALSE]
  ELSE IF Truthy(id) THEN [error |-> NoError, value |-> ApprovalsHas(S, id)]
  ELSE IF Truthy(origin)
    THEN [error |-> NoError, value |-> OriginHasType(S, origin, type)]
  ELSE [error |-> PlainError(<<"Must specify id or origin.">>), value |-> FALSE]

\* The property key that state[id] looks up: a string is the key itself, any
\* other value is converted to a string (an array to its elements joined).
PropertyKey(v) ==
  IF v = Undefined THEN "undefined"
  ELSE IF v = Null THEN "null"
  ELSE IF v = Zero THEN "0"
  ELSE IF v = ArrayValue THEN "foo"
  ELSE IF v \in {PlainObject, MutatedObject} THEN "[object Object]"
  ELSE v

\* The arguments of get: an id, nothing, or a value that is not a string.
GetArgs == Ids \cup {Undefined, Null, Zero, PlainObject, ArrayValue}

\* get(id): a copy of the info, or undefined
get(S, id) ==
  IF PropertyKey(id) \in DOMAIN S.store
    THEN [undefined |-> FALSE, info |-> S.store[PropertyKey(id)]]
    ELSE [undefined |-> TRUE, info |-> <<>>]

\* What a caller can do to the object that get has returned: assign one of
\* its fields, or write into the value that a field holds.
Mutations == [kind : {"assign", "write"}, field : {"id", "origin", "type", "requestData"}]

\* The fields of an object whose values are references to objects.
References(info) ==
  {k \in DOMAIN info : TypeOf(info[k]) = "object" /\ info[k] # Null}

\* The controller after a caller has applied mutation m to the object that
\* get(id) returned.  { ...info } is a new object with the values of info's
\* fields: an assignment stays in it, and a write into the object that a field
\* refers to is a write into the object that the store's entry refers to.
CallerMutates(S, id, m) ==
  IF get(S, id).undefined THEN S
  ELSE IF m.kind = "write" /\ m.field \in References(get(S, id).info)
    THEN [S EXCEPT !.store[PropertyKey(id)][m.field] = MutatedObject]
  ELSE S

\* The arguments of has.
HasCalls == [id : IdArgs, origin : OriginArgs, type : TypeArgs \cup {""}]

HasResult(c) == has(State, c.id, c.origin, c.type)

----------------------------------------------------------------------------
\* Public calls

Commit(S) ==
  /\ approvals' = S.approvals
  /\ origins' = S.origins
  /\ store' = S.store
  /\ handles' = S.handles
  /\ UNCHANGED <<awaiting, observed>>

Init ==
  /\ approvals = <<>>
  /\ origins = <<>>
  /\ store = <<>>
  /\ handles = <<>>
  /\ awaiting = [c \in Consumers |-> 0]
  /\ observed = [c \in Consumers |-> NotObserved]

AddCalls ==
  {c \in [id : IdArgs, nano : NanoIds \cup {Undefined}, origin : OriginArgs,
          type : TypeArgs, requestData : RequestDataArgs] :
     (c.nano = Undefined) <=> (c.id # Undefined)}

\* The falsy values a caller can pass for an id or a type.
FalsyArgs == {Null, "", Zero}

AddResult(c) == add(State, c.id, c.nano, c.origin, c.type, c.requestData)

\* What add returns to its caller: the promise that _add created.
AddReturn(c) == [promise |-> AddResult(c).handle]

Add ==
  \E c \in AddCalls :
    /\ AddResult(c).error = NoError => Len(handles) < MaxHandles
    /\ Commit(AddResult(c))

AddAndShowResult(showApprovalRequest, c) ==
  addAndShowApprovalRequest(State, showApprovalRequest,
                            c.id, c.nano, c.origin, c.type, c.requestData)

AddAndShowApprovalRequest ==
  \E showApprovalRequest \in ShowApprovalRequests, c \in AddCalls :
    LET R == AddAndShowResult(showApprovalRequest, c) IN
    /\ Len(R.handles) <= MaxHandles
    /\ Commit(R)

Resolve == \E id \in Ids, value \in Values : Commit(resolve(State, id, value))

Reject == \E id \in Ids, error \in Errors : Commit(reject(State, id, error))

Clear == Commit(clear(State))

Next == Add \/ AddAndShowApprovalRequest \/ Resolve \/ Reject \/ Clear

Spec == Init /\ [][Next]_vars

\* const result = await approvalPromise: consumer c starts to await promise h,
\* pending or settled.
Await(c) ==
  /\ awaiting[c] = 0
  /\ \E h \in 1..Len(handles) : awaiting' = [awaiting EXCEPT ![c] = h]
  /\ UNCHANGED <<approvals, origins, store, handles, observed>>

\* The reaction of consumer c runs: it is handed the outcome of its promise.
Observe(c) ==
  /\ awaiting[c] # 0
  /\ observed[c] = NotObserved
  /\ handles[awaiting[c]].state # "pending"
  /\ observed' = [observed EXCEPT ![c] = Outcome(State, awaiting[c])]
  /\ UNCHANGED <<approvals, origins, store, handles, awaiting>>

Consume == \E c \in Consumers : Await(c) \/ Observe(c)

\* The controller with consumers that await its promises.  The reaction of a
\* settled promise is a job of the microtask queue, which runs once the
\* current call has returned.
FairNext == (Next /\ Len(handles') <= MaxAwaited) \/ Consume

FairSpec ==
  Init /\ [][FairNext]_vars /\ \A c \in Consumers : WF_vars(Observe(c))

----------------------------------------------------------------------------
\* What the properties below speak about

EffType(typeArg) == IF typeArg = Undefined THEN DEFAULT_TYPE ELSE typeArg

EffId(c) == IF c.id = Undefined THEN c.nano ELSE c.id

\* The entries of the primary map that were added with this origin and type.
PairEntries(S, origin, type) ==
  {i \in 1..Len(S.approvals) :
     S.approvals[i].origin = origin /\ S.approvals[i].type = type}

PairPending(S, origin, type) == PairEntries(S, origin, type) # {}

\* The call threw (or returned) without any effect.
NoEffect(R) ==
  /\ R.approvals = approvals
  /\ R.origins = origins
  /\ R.store = store
  /\ R.handles = handles
  /\ R.pubs = <<>>
  /\ R.deletes = <<>>

\* The request data that the specification accepts.
SpecifiedRequestData(requestData) == requestData \in {Undefined, PlainObject}

ResolveResults(id) == {resolve(State, id, v) : v \in Values}
RejectResults(id) == {reject(State, id, e) : e \in Errors}
SettleResults(id) == ResolveResults(id) \cup RejectResults(id)

\* The controller that a call has left, as the next call finds it.
After(R) ==
  [R EXCEPT !.error = NoError, !.handle = 0, !.deletes = <<>>, !.pubs = <<>>,
            !.shows = <<>>]

\* The promises that a call has settled: the consumers awaiting one of them
\* are the ones that run after the call.
Woken(R) ==
  {h \in 1..Len(handles) :
     handles[h].state = "pending" /\ R.handles[h].state # "pending"}

\* The type argument that names the type of a pending approval.
TypeArgOf(type) == IF type = DEFAULT_TYPE THEN Undefined ELSE type

\* The outcomes of the calls that delete the approval of this id.
DeleteResults(id) == SettleResults(id) \cup {_delete(State, id)}

\* The arguments of add that the specification calls valid: the id omitted or
\* non-empty, the origin non-empty, the type omitted or non-empty, the request
\* data omitted or a plain object.
ValidAddArgs(c) ==
  /\ c.id = Undefined \/ Truthy(c.id)
  /\ Truthy(c.origin)
  /\ c.type = Undefined \/ Truthy(c.type)
  /\ SpecifiedRequestData(c.requestData)

\* The errors of add that the specification calls InvalidArgument.
InvalidArgument ==
  {FalsyIdError, MissingOriginError, FalsyTypeError, InvalidRequestDataError}

\* The call c with this id, and with this type, passed explicitly.
WithId(c, id) == [c EXCEPT !.id = id, !.nano = Undefined]
WithType(c, type) == [c EXCEPT !.type = type]

\* The strings and values that a message is made of.
Parts(message) == {message[k] : k \in 1..Len(message)}

\* The promises that are rejected in S.
RejectedHandles(S) == {h \in 1..Len(S.handles) : S.handles[h].state = "rejected"}

\* The promises of the approvals that are pending in S.
ApprovalHandles(S) == {S.approvals[i].h : i \in 1..Len(S.approvals)}

\* The arguments of _delete: an id, nothing, or a falsy value.
DeleteArgs == Ids \cup {Undefined} \cup FalsyArgs

\* In the controller that a call has left, the promises of the approvals in
\* the Map are the pending ones, and the promise of every approval that the
\* call has removed from the Map is settled.
RemovedSettled(R) ==
  /\ ApprovalHandles(R) = PendingHandles(R)
  /\ \A i \in 1..Len(approvals) :
       (\A j \in 1..Len(R.approvals) : R.approvals[j] # approvals[i])
         => R.handles[approvals[i].h].state \in {"fulfilled", "rejected"}

\* The checks of add, by what the caller passed and what is pending.  The
\* request data fail their check when they are truthy and no plain object.
ExplicitFalsyId(c) == c.id # Undefined /\ ~Truthy(c.id)
MissingOrigin(c) == ~Truthy(c.origin)
IdCollision(c) == EffId(c) \in ApprovalIds(State)
ExplicitFalsyType(c) == c.type # Undefined /\ ~Truthy(c.type)
InvalidRequestData(c) == c.requestData \in {ArrayValue, StringValue}
OriginTypeCollision(c) == PairPending(State, c.origin, EffType(c.type))

\* P holds of the outcome of every public call that can be made in the
\* current state.
AfterEveryCall(P(_)) ==
  /\ \A c \in AddCalls : P(AddResult(c))
  /\ \A id \in Ids : \A R \in SettleResults(id) : P(R)
  /\ P(clear(State))

EntryOf(id) == ApprovalsGet(State, id)

\* The approval pending under this id is pending after the call as it was
\* before it.
Kept(id, R) ==
  /\ ApprovalsHas(R, id)
  /\ ApprovalsGet(R, id) = EntryOf(id)
  /\ id \in DOMAIN R.store
  /\ R.store[id] = store[id]
  /\ OriginHasType(R, EntryOf(id).origin, EntryOf(id).type)
  /\ R.handles[EntryOf(id).h] = [state |-> "pending", value |-> Undefined]

----------------------------------------------------------------------------
C2_IdCollision ==
  \A c \in AddCalls :
    EffId(c) \in ApprovalIds(State) =>
      LET R == AddResult(c) IN
      /\ R.error # NoError
      /\ NoEffect(R)
      /\ Truthy(c.origin) => R.error = IdCollisionError

\* C2 as stated: the error is the id collision whatever the origin.
C2_Original ==
  \A c \in AddCalls :
    EffId(c) \in ApprovalIds(State) =>
      /\ AddResult(c).error = IdCollisionError
      /\ NoEffect(AddResult(c))

\* An add of a pending id, with another origin and a falsy type, is refused
\* with the id collision.
C2_Witness ==
  \E c \in AddCalls :
    /\ EffId(c) \in ApprovalIds(State)
    /\ c.origin \in Origins
    /\ c.origin # EntryOf(EffId(c)).origin
    /\ c.type = Null
    /\ AddResult(c).error = IdCollisionError

\* C3: an add that raises an error has no effect at all (no promise, no entry
\* in the primary map, the origin index or the projection, no publication);
\* an add that returns has registered its id in all three.
C3_AddAtomic ==
  \A c \in AddCalls :
    LET R == AddResult(c) IN
    IF R.error # NoError THEN NoEffect(R)
    ELSE /\ EffId(c) \notin ApprovalIds(State)
         /\ ApprovalIds(R) = ApprovalIds(State) \cup {EffId(c)}
         /\ OriginHasType(R, c.origin, EffType(c.type))
         /\ ~OriginHasType(State, c.origin, EffType(c.type))
         /\ DOMAIN R.store = DOMAIN store \cup {EffId(c)}
         /\ R.handles[R.handle].state = "pending"

\* One approval is pending, and adds exist that fail in each way and that
\* succeed.
C3_Witness ==
  /\ Len(approvals) = 1
  /\ \A e \in {FalsyIdError, MissingOriginError, IdCollisionError, FalsyTypeError,
               InvalidRequestDataError} :
       \E c \in AddCalls : AddResult(c).error = e
  /\ \E c \in AddCalls : AddResult(c).error.code = "resourceUnavailable"
  /\ \E c \in AddCalls : AddResult(c).error = NoError

C5_ProjectionIffPrimary ==
  LET Consistent(R) ==
        /\ DOMAIN R.store = ApprovalIds(R)
        /\ \A k \in 1..Len(R.pubs) : R.pubs[k].store = R.pubs[k].primary
        /\ (R.store # store \/ ApprovalIds(R) # ApprovalIds(State))
             => R.pubs # <<>> /\ R.pubs[Len(R.pubs)].store = DOMAIN R.store
  IN /\ DOMAIN store = ApprovalIds(State)
     /\ AfterEveryCall(Consistent)

\* Two approvals are pending: clear publishes three times, an add and a
\* resolve once each.
C5_Witness ==
  /\ Len(approvals) = 2
  /\ Len(clear(State).pubs) = 3
  /\ \E id \in Ids : \A R \in SettleResults(id) : Len(R.pubs) = 1

\* C6: every origin key of the index has a pending type; resolve and reject
\* remove the origin key exactly when no other approval of that origin is
\* pending.
C6_NoEmptyBucket ==
  /\ \A o \in DOMAIN origins : origins[o] # {}
  /\ \A id \in ApprovalIds(State) : \A R \in SettleResults(id) :
       LET o == EntryOf(id).origin IN
       /\ \A p \in DOMAIN R.origins : R.origins[p] # {}
       /\ o \in DOMAIN R.origins
            <=> \E i \in 1..Len(approvals) :
                  approvals[i].id # id /\ approvals[i].origin = o

\* An origin has two approvals pending, one of the default type: settling the
\* explicit one keeps the origin key, settling both removes it.
C6_Witness ==
  /\ Len(approvals) = 2
  /\ approvals[1].origin = approvals[2].origin
  /\ approvals[1].type = DEFAULT_TYPE
  /\ LET R == resolve(State, approvals[2].id, Undefined) IN
       /\ approvals[1].origin \in DOMAIN R.origins
       /\ approvals[1].origin \notin DOMAIN reject(R, approvals[1].id, Undefined).origins

\* C7 (as amended): resolve and reject settle the handle of the id with their
\* own outcome and value; a second resolve or reject of the id, made before the
\* id is added again, raises NotFound and changes no handle; and no public call
\* changes a settled handle.
C7_SettledOnce ==
  /\ \A id \in ApprovalIds(State) : \A R1 \in SettleResults(id) :
       /\ R1.error = NoError
       /\ R1.handle = EntryOf(id).h
       /\ R1.handles[R1.handle].state # "pending"
       /\ \A v \in Values : LET R2 == resolve(R1, id, v) IN
            R2.error = NotFoundError /\ R2.handles = R1.handles
       /\ \A e \in Errors : LET R2 == reject(R1, id, e) IN
            R2.error = NotFoundError /\ R2.handles = R1.handles
  /\ \A id \in ApprovalIds(State), v \in Values :
       resolve(State, id, v).handles[EntryOf(id).h] =
         [state |-> "fulfilled", value |-> v]
  /\ \A id \in ApprovalIds(State), e \in Errors :
       reject(State, id, e).handles[EntryOf(id).h] =
         [state |-> "rejected", value |-> e]
  /\ LET KeepsSettled(R) ==
           \A h \in 1..Len(handles) :
             handles[h].state # "pending" => R.handles[h] = handles[h]
     IN AfterEveryCall(KeepsSettled)

\* C7 as stated: after resolve(id) has succeeded, any later resolve of the id
\* raises NotFound; here the later resolve follows one add.
C7_Original ==
  \A id \in ApprovalIds(State), c \in AddCalls :
    LET R1 == resolve(State, id, Undefined)
        R2 == add(R1, c.id, c.nano, c.origin, c.type, c.requestData)
    IN resolve(R2, id, Undefined).error = NotFoundError

\* A handle fulfilled with a value and a handle rejected with an error exist
\* while another approval is pending.
C7_Witness ==
  /\ \E h \in 1..Len(handles) : handles[h] = [state |-> "fulfilled", value |-> "success"]
  /\ \E h \in 1..Len(handles) : handles[h] = [state |-> "rejected", value |-> "failure"]
  /\ approvals # <<>>

\* C8: resolve and reject of an id that is not pending raise NotFound, call
\* _delete zero times and have no effect; resolve, reject and clear call
\* _delete only with an id that is in the primary map.
C8_NotFound ==
  /\ \A id \in Ids \ ApprovalIds(State) : \A R \in SettleResults(id) :
       R.error = NotFoundError /\ NoEffect(R)
  /\ \A R \in UNION {SettleResults(id) : id \in Ids} \cup {clear(State)} :
       \A k \in 1..Len(R.deletes) : R.deletes[k].present

\* One id is pending and the other one, settled before, is not.
C8_Witness ==
  \E id \in Ids \ ApprovalIds(State) :
    /\ approvals # <<>>
    /\ \E h \in 1..Len(handles) : handles[h].state = "fulfilled"
    /\ resolve(State, id, "success").error = NotFoundError

C10_ClearAll ==
  LET R == clear(State)
      N == Len(approvals)
  IN /\ R.error = NoError
     /\ \A i \in 1..N :
          R.handles[approvals[i].h] = [state |-> "rejected", value |-> Undefined]
     /\ \A h \in 1..Len(handles) :
          handles[h].state # "pending" => R.handles[h] = handles[h]
     /\ Len(R.deletes) = N
     /\ \A i \in 1..N : R.deletes[i] = [id |-> approvals[i].id, present |-> TRUE]
     /\ R.approvals = <<>>
     /\ R.origins = <<>>
     /\ R.store = <<>>

\* Two approvals of different origins are pending, one with an explicit type
\* and request data, one of the default type.
C10_Witness ==
  /\ Len(approvals) = 2
  /\ approvals[1].origin # approvals[2].origin
  /\ approvals[1].type # DEFAULT_TYPE
  /\ approvals[2].type = DEFAULT_TYPE
  /\ "requestData" \in DOMAIN store[approvals[1].id]
  /\ "requestData" \notin DOMAIN store[approvals[2].id]
  /\ Len(clear(State).deletes) = 2

\* C11: clear on an empty registry throws nothing, calls _delete zero times,
\* settles no handle and leaves the three structures empty; a second clear
\* right after a clear does the same, so it ends with the structures and the
\* handles that the first clear left.
C11_ClearIdempotent ==
  LET R1 == clear(State)
      R2 == clear(After(R1))
  IN /\ approvals = <<>> =>
          /\ R1.error = NoError
          /\ R1.deletes = <<>>
          /\ R1.handles = handles
          /\ R1.approvals = <<>> /\ R1.origins = <<>> /\ R1.store = <<>>
     /\ R2.error = NoError
     /\ R2.deletes = <<>>
     /\ R2.handles = R1.handles
     /\ R2.approvals = R1.approvals
     /\ R2.origins = R1.origins
     /\ R2.store = R1.store

\* The registry is empty after a clear that rejected two approvals, and one
\* more clear publishes the empty projection again and does nothing else.
C11_Witness ==
  /\ approvals = <<>>
  /\ Cardinality({h \in 1..Len(handles) :
                    handles[h] = [state |-> "rejected", value |-> Undefined]}) = 2
  /\ clear(State).error = NoError
  /\ Len(clear(State).pubs) = 1

\* C12: add returns the promise whose callbacks it stores under the id; with
\* several approvals pending, resolve(id, v) fulfils with v, and reject(id, e)
\* rejects with e, the promise of that id and no other, in whatever order the
\* ids are taken; the pending approvals have distinct pending promises, and
\* the consumers woken by a call are those of the promise it settled.
C12_OwnHandleOnly ==
  /\ \A i, j \in 1..Len(approvals) :
       /\ handles[approvals[i].h].state = "pending"
       /\ i # j => approvals[i].h # approvals[j].h
  /\ \A c \in AddCalls : LET R == AddResult(c) IN
       R.error = NoError =>
         /\ R.handle = Len(handles) + 1
         /\ ApprovalsGet(R, EffId(c)).h = R.handle
         /\ Woken(R) = {}
  /\ \A id \in ApprovalIds(State), v \in Values :
       LET R == resolve(State, id, v) IN
       /\ R.handles = [handles EXCEPT ![EntryOf(id).h] =
                                       [state |-> "fulfilled", value |-> v]]
       /\ Woken(R) = {EntryOf(id).h}
  /\ \A id \in ApprovalIds(State), e \in Errors :
       LET R == reject(State, id, e) IN
       /\ R.handles = [handles EXCEPT ![EntryOf(id).h] =
                                       [state |-> "rejected", value |-> e]]
       /\ Woken(R) = {EntryOf(id).h}
  /\ \A id1, id2 \in ApprovalIds(State), v \in Values, e \in Errors :
       id1 # id2 =>
         LET R1 == resolve(State, id2, v)
             R2 == reject(After(R1), id1, e)
         IN /\ R1.handles[EntryOf(id1).h].state = "pending"
            /\ R2.error = NoError
            /\ R2.handles[EntryOf(id2).h] = [state |-> "fulfilled", value |-> v]
            /\ R2.handles[EntryOf(id1).h] = [state |-> "rejected", value |-> e]

\* Two approvals are pending beside a settled promise; the one added last is
\* resolved first and the other one is still pending after that.
C12_Witness ==
  /\ Len(approvals) = 2
  /\ Len(handles) = 3
  /\ approvals[1].h < approvals[2].h
  /\ LET R == resolve(State, approvals[2].id, "success") IN
       /\ R.handles[approvals[2].h] = [state |-> "fulfilled", value |-> "success"]
       /\ R.handles[approvals[1].h].state = "pending"

\* C13: resolve, reject and _delete of a pending id remove that id from the
\* Map and from the projection and its own (origin, type) pair from the index,
\* and change nothing else: every other pending approval keeps its entry, its
\* projection entry, its pair and its pending promise, so has({id}) and
\* has({origin, type}) of the others stay true.
C13_DeleteFrame ==
  \A id \in ApprovalIds(State) : \A R \in DeleteResults(id) :
    LET e == EntryOf(id) IN
    /\ R.error = NoError
    /\ R.approvals = SelectSeq(approvals, LAMBDA a : a.id # id)
    /\ R.store = Restrict(store, DOMAIN store \ {id})
    /\ \A o \in Origins, t \in Types \cup {DEFAULT_TYPE} :
         OriginHasType(R, o, t)
           <=> OriginHasType(State, o, t) /\ <<o, t>> # <<e.origin, e.type>>
    /\ \A i \in 1..Len(approvals) : LET a == approvals[i] IN
         a.id # id =>
           /\ has(R, a.id, Undefined, Undefined) = [error |-> NoError, value |-> TRUE]
           /\ has(R, Undefined, a.origin, TypeArgOf(a.type))
                = [error |-> NoError, value |-> TRUE]
           /\ get(R, a.id) = get(State, a.id)
           /\ R.handles[a.h] = handles[a.h]

\* An origin has an approval of the default type and one of an explicit type
\* pending; _delete of the explicit one leaves the other one and its pair.
C13_Witness ==
  /\ Len(approvals) = 2
  /\ approvals[1].origin = approvals[2].origin
  /\ approvals[1].type = DEFAULT_TYPE
  /\ approvals[2].type \in Types
  /\ LET R == _delete(State, approvals[2].id) IN
       /\ has(R, approvals[1].id, Undefined, Undefined).value
       /\ has(R, Undefined, approvals[1].origin, Undefined).value
       /\ ~has(R, approvals[2].id, Undefined, Undefined).value
       /\ ~has(R, Undefined, approvals[2].origin, approvals[2].type).value

C15_RoundTrip ==
  \A c \in AddCalls : LET R == AddResult(c) IN
    R.error = NoError =>
      LET g == get(R, EffId(c)) IN
      /\ ~g.undefined
      /\ g.info = R.store[EffId(c)]
      /\ DOMAIN g.info =
           {"origin"}
             \cup (IF c.type # Undefined THEN {"type"} ELSE {})
             \cup (IF c.requestData # Undefined THEN {"requestData"} ELSE {})
      /\ g.info["origin"] = c.origin
      /\ c.type # Undefined => g.info["type"] = c.type
      /\ c.requestData # Undefined => g.info["requestData"] = c.requestData

\* C16: a pending approval has a pending promise, and every call that is not
\* resolve or reject of its id and not clear (every add, failed or not, every
\* resolve and reject of another id, failed or not) leaves it pending with its
\* origin, type, request data and promise; get and has write nothing, and no
\* step of the controller happens without a call.
C16_StaysPending ==
  \A id \in ApprovalIds(State) :
    /\ Kept(id, State)
    /\ \A c \in AddCalls : Kept(id, AddResult(c))
    /\ \A id2 \in Ids \ {id} : \A R \in SettleResults(id2) : Kept(id, R)

\* The approval whose promise was created first is still pending after a
\* later approval was added and settled and a third one was added.
C16_Witness ==
  /\ Len(approvals) = 2
  /\ Len(handles) = 3
  /\ approvals[1].h = 1
  /\ approvals[2].h = 3
  /\ handles[2].state # "pending"
  /\ "requestData" \in DOMAIN store[approvals[1].id]

\* C17: whatever a caller does to the object that get(id) returned, to its
\* fields or to the request data reachable from it, a later get(id) returns
\* what it returned before and the projection holds what it held.
C17_GetCopy ==
  \A id \in DOMAIN store, m \in Mutations :
    LET S2 == CallerMutates(State, id, m) IN
    /\ get(S2, id) = get(State, id)
    /\ S2.store = store

\* C18: get returns undefined for every argument that is not a pending id: an
\* id that is not pending, no argument, and an argument that is not a string.
C18_GetPermissive ==
  \A arg \in GetArgs :
    arg \notin ApprovalIds(State) => get(State, arg).undefined

C20_HasErrors ==
  \A c \in HasCalls :
    /\ (c.type # Undefined /\ ~Truthy(c.type)) =>
         HasResult(c).error = PlainError(<<"May not specify falsy type.">>)
    /\ ((c.type = Undefined \/ Truthy(c.type)) /\ ~Truthy(c.id) /\ ~Truthy(c.origin)) =>
         HasResult(c).error = PlainError(<<"Must specify id or origin.">>)
    /\ HasResult(c).error # NoError =>
         \/ c.type # Undefined /\ ~Truthy(c.type)
         \/ ~Truthy(c.id) /\ ~Truthy(c.origin)

\* An approval is pending, and has with its id, its origin and the type null
\* raises the falsy-type error.
C20_Witness ==
  /\ Len(approvals) = 1
  /\ has(State, approvals[1].id, approvals[1].origin, Null).error
       = PlainError(<<"May not specify falsy type.">>)
  /\ has(State, approvals[1].id, Undefined, Undefined).value
  /\ has(State, Undefined, Undefined, "myType").error
       = PlainError(<<"Must specify id or origin.">>)

C22_RequestData ==
  \A c \in AddCalls : LET R == AddResult(c) IN
    /\ ~SpecifiedRequestData(c.requestData) =>
         R.error \in InvalidArgument /\ NoEffect(R)
    /\ R.error = NoError => SpecifiedRequestData(c.requestData)

\* C23: an add whose id is pending and whose (origin, type) pair is pending
\* raises the id-collision error; an add raises the origin/type collision
\* error only when its id is not pending (and its pair is).
C23_CollisionOrder ==
  \A c \in AddCalls : LET R == AddResult(c) IN
    /\ (EffId(c) \in ApprovalIds(State)
          /\ PairPending(State, c.origin, EffType(c.type)))
         => R.error = IdCollisionError /\ NoEffect(R)
    /\ R.error.code = "resourceUnavailable"
         => /\ EffId(c) \notin ApprovalIds(State)
            /\ PairPending(State, c.origin, EffType(c.type))

\* Two approvals are pending; an add with the id of the first and the pair of
\* the second raises the id collision, as does one with the id and the pair
\* of the first.
C23_Witness ==
  /\ Len(approvals) = 2
  /\ <<approvals[1].origin, approvals[1].type>> # <<approvals[2].origin, approvals[2].type>>
  /\ \E c1, c2 \in AddCalls :
       /\ c1.id = approvals[1].id /\ c2.id = approvals[1].id
       /\ c1.origin = approvals[2].origin /\ EffType(c1.type) = approvals[2].type
       /\ c2.origin = approvals[1].origin /\ EffType(c2.type) = approvals[1].type
       /\ AddResult(c1).error = IdCollisionError
       /\ AddResult(c2).error = IdCollisionError

\* C24: an add fails with the resource-unavailable code exactly when it fails
\* for its pending (origin, type) pair, and the message then names the origin,
\* and the type if and only if the type was given; it fails with the internal
\* code for a falsy id, a missing origin, a pending id, a falsy type and
\* invalid request data, five errors with different messages; it fails with
\* no other code.
C24_ErrorKinds ==
  /\ Cardinality({FalsyIdError, MissingOriginError, IdCollisionError, FalsyTypeError,
                   InvalidRequestDataError}) = 5
  /\ \A c \in AddCalls : LET R == AddResult(c) IN
       /\ R.error.code \in {"none", "internal", "resourceUnavailable"}
       /\ R.error.code = "internal" <=>
            R.error \in InvalidArgument \cup {IdCollisionError}
       /\ R.error.code = "resourceUnavailable" =>
            /\ PairPending(State, c.origin, EffType(c.type))
            /\ _validateAddParams(State, EffId(c), c.origin, EffType(c.type), c.requestData)
                 = NoError
            /\ R.error.message = getAlreadyPendingMessage(c.origin, EffType(c.type))
            /\ c.origin \in Parts(R.error.message)
            /\ c.type # Undefined <=> c.type \in Parts(R.error.message)
            /\ DEFAULT_TYPE \notin Parts(R.error.message)
       /\ (ValidAddArgs(c) /\ EffId(c) \notin ApprovalIds(State)
             /\ PairPending(State, c.origin, EffType(c.type)))
            => R.error.code = "resourceUnavailable"
       /\ R.error.code = "internal" =>
            \/ ~ValidAddArgs(c)
            \/ EffId(c) \in ApprovalIds(State)

\* An approval of the default type is pending: an add of the other id for the
\* same origin without a type fails with the resource-unavailable code and a
\* message that names no type, and an add of the pending id fails with the
\* internal code.
C24_Witness ==
  /\ Len(approvals) = 1
  /\ approvals[1].type = DEFAULT_TYPE
  /\ \E c \in AddCalls :
       /\ c.id \in Ids \ ApprovalIds(State)
       /\ c.origin = approvals[1].origin /\ c.type = Undefined
       /\ AddResult(c).error =
            ResourceUnavailable(<<"Request ", "already pending for origin ", c.origin,
                                  ". Please wait.">>)
       /\ AddResult(WithId(c, approvals[1].id)).error.code = "internal"

\* C25: an add that succeeds returns the new pending promise, and when the
\* id was omitted it returns the generated id with it.
C25_ReturnsHandleAndId ==
  \A c \in AddCalls :
    AddResult(c).error = NoError =>
      /\ AddReturn(c).promise = Len(handles) + 1
      /\ AddResult(c).handles[AddReturn(c).promise].state = "pending"
      /\ c.id = Undefined =>
           /\ "id" \in DOMAIN AddReturn(c)
           /\ AddReturn(c)["id"] = c.nano

\* C26: for every origin O and every type string T: while the default-type
\* approval of O is the only one of O that is pending, has({origin: O,
\* type: T}) is false and an add for O with type T succeeds, after which both
\* are pending; while the T approval is the only one of O that is pending,
\* has({origin: O}) is false and an add for O without a type succeeds, after
\* which both are pending.
C26_DefaultTypeApart ==
  \A O \in DOMAIN origins, T \in TypeStrings, id \in Ids \ ApprovalIds(State) :
    /\ origins[O] = {DEFAULT_TYPE} =>
         LET R == add(State, id, Undefined, O, T, Undefined) IN
         /\ ~has(State, Undefined, O, T).value
         /\ R.error = NoError
         /\ R.origins[O] = {DEFAULT_TYPE, T}
         /\ has(R, Undefined, O, T).value /\ has(R, Undefined, O, Undefined).value
    /\ origins[O] = {T} =>
         LET R == add(State, id, Undefined, O, Undefined, Undefined) IN
         /\ ~has(State, Undefined, O, Undefined).value
         /\ R.error = NoError
         /\ R.origins[O] = {DEFAULT_TYPE, T}
         /\ has(R, Undefined, O, T).value /\ has(R, Undefined, O, Undefined).value

\* C27: an add, resolve or reject that raises an error creates and settles no
\* promise, and a failed add returns none; a successful add or resolve
\* rejects no promise; a successful reject(id, e) rejects the promise of id
\* with e and no other; clear raises no error and rejects the promises of the
\* pending approvals; no promise is ever rejected with one of the
\* controller's errors.  (has returns or throws, and has no promise to act on.)
C27_ChannelsApart ==
  /\ \A c \in AddCalls :
       LET R == AddResult(c) IN
       /\ R.error # NoError => R.handle = 0 /\ R.handles = handles
       /\ RejectedHandles(R) = RejectedHandles(State)
  /\ \A id \in Ids :
       /\ \A v \in Values :
            LET R == resolve(State, id, v) IN
            /\ R.error # NoError => R.handles = handles
            /\ RejectedHandles(R) = RejectedHandles(State)
       /\ \A e \in Errors :
            LET R == reject(State, id, e) IN
            /\ R.error # NoError => R.handles = handles
            /\ R.error = NoError =>
                 /\ RejectedHandles(R) \ RejectedHandles(State) = {EntryOf(id).h}
                 /\ R.handles[EntryOf(id).h].value = e
  /\ LET R == clear(State) IN
       /\ R.error = NoError
       /\ RejectedHandles(R) \ RejectedHandles(State) = ApprovalHandles(State)
  /\ \A c \in HasCalls : HasResult(c).error # NoError => ~HasResult(c).value
  /\ \A h \in RejectedHandles(State) : handles[h].value \in Errors \cup {Undefined}

\* One promise was rejected by reject with the caller's error and one by
\* clear; an approval is pending, and an add fails with each kind of error
\* while a resolve and a reject of the id that is not pending fail too.
C27_Witness ==
  /\ \E h \in RejectedHandles(State) : handles[h].value \in Errors
  /\ \E h \in RejectedHandles(State) : handles[h].value = Undefined
  /\ \E c \in AddCalls : AddResult(c).error \in InvalidArgument
  /\ \E c \in AddCalls : AddResult(c).error = IdCollisionError
  /\ \E c \in AddCalls : AddResult(c).error.code = "resourceUnavailable"
  /\ \E id \in Ids, e \in Errors : reject(State, id, e).error = NotFoundError
  /\ \E id \in Ids, e \in Errors : reject(State, id, e).error = NoError

\* C28: in resolve(id, value) and reject(id, error) of a pending id, no
\* subscriber of the store is shown a state without the entry of id while the
\* promise of id is still pending.
C28_SettledBeforeRemoved ==
  \A id \in ApprovalIds(State) : \A R \in SettleResults(id) :
    \A k \in 1..Len(R.pubs) :
      id \notin R.pubs[k].store => EntryOf(id).h \notin R.pubs[k].pending

\* C29: _delete raises an error exactly when its id is missing or falsy, and
\* then changes nothing; given an id that is not pending it raises none,
\* changes and publishes nothing, and every pending approval is kept; given a
\* pending id it raises none and removes the Map entry, the type from the
\* origin's index (and the origin key exactly when no other approval of the
\* origin is pending) and the projection entry, settles no promise and keeps
\* the other approvals.
C29_DeleteHelper ==
  \A id \in DeleteArgs :
    LET R == _delete(State, id)
        Unchanged == /\ R.approvals = approvals /\ R.origins = origins
                     /\ R.store = store /\ R.handles = handles /\ R.pubs = <<>>
    IN
    /\ ~Truthy(id) =>
         R.error = PlainError(<<"Expected id to be specified.">>) /\ Unchanged
    /\ (Truthy(id) /\ ~ApprovalsHas(State, id)) =>
         /\ R.error = NoError
         /\ Unchanged
         /\ \A j \in ApprovalIds(State) : Kept(j, R)
    /\ ApprovalsHas(State, id) =>
         LET e == EntryOf(id) IN
         /\ R.error = NoError
         /\ ~ApprovalsHas(R, id)
         /\ id \notin DOMAIN R.store
         /\ e.origin \in DOMAIN R.origins => e.type \notin R.origins[e.origin]
         /\ (e.origin \in DOMAIN R.origins)
              <=> (\E j \in ApprovalIds(R) : ApprovalsGet(R, j).origin = e.origin)
         /\ R.handles = handles
         /\ \A j \in ApprovalIds(State) \ {id} : Kept(j, R)

\* One approval is pending and one id is not: _delete of the latter changes
\* nothing, _delete of the former removes it with its origin key, and
\* _delete without an id raises the error.
C29_Witness ==
  \E id \in ApprovalIds(State), other \in Ids \ ApprovalIds(State) :
    /\ _delete(State, other).error = NoError
    /\ _delete(State, other).store = store
    /\ EntryOf(id).origin \notin DOMAIN _delete(State, id).origins
    /\ id \notin DOMAIN _delete(State, id).store
    /\ _delete(State, Undefined).error # NoError

\* C30: for a controller built with a UI callback, an addAndShowApprovalRequest
\* whose add fails does not invoke the callback, raises the error of add and
\* changes nothing; one whose add succeeds invokes the callback once, and the
\* callback finds the approval registered as the call leaves it: has of its
\* id and of its origin and type is true and get returns its entry.
C30_ShowsOnceAfterAdd ==
  \A showApprovalRequest \in ShowApprovalRequests \ {Undefined}, c \in AddCalls :
    LET R == AddAndShowResult(showApprovalRequest, c)
        A == AddResult(c)
    IN
    /\ A.error # NoError => R.shows = <<>> /\ R.error = A.error /\ NoEffect(R)
    /\ A.error = NoError =>
         /\ Len(R.shows) = 1
         /\ has(R.shows[1], EffId(c), Undefined, Undefined).value
         /\ has(R.shows[1], Undefined, c.origin, c.type).value
         /\ ~get(R.shows[1], EffId(c)).undefined
         /\ R.shows[1].approvals = A.approvals /\ R.approvals = A.approvals
         /\ R.shows[1].origins = A.origins /\ R.origins = A.origins
         /\ R.shows[1].store = A.store /\ R.store = A.store
         /\ R.shows[1].handles = A.handles /\ R.handles = A.handles

\* An approval is pending: an addAndShowApprovalRequest of another id and
\* origin invokes the callback once and returns the promise, and one of the
\* pending id invokes nothing.
C30_Witness ==
  /\ approvals # <<>>
  /\ \E c \in AddCalls :
       /\ Len(AddAndShowResult("returns", c).shows) = 1
       /\ AddAndShowResult("returns", c).handle = Len(handles) + 1
  /\ \E c \in AddCalls :
       /\ AddAndShowResult("returns", c).error = IdCollisionError
       /\ AddAndShowResult("returns", c).shows = <<>>

\* C31: an addAndShowApprovalRequest that raises an error, of a controller
\* built with any callback or with none, has registered no approval: the Map,
\* the origin index and the store state are as they were before the call.
C31_ErrorRegistersNothing ==
  \A showApprovalRequest \in ShowApprovalRequests, c \in AddCalls :
    LET R == AddAndShowResult(showApprovalRequest, c) IN
    R.error # NoError =>
      /\ R.approvals = approvals
      /\ R.origins = origins
      /\ R.store = store

\* C32: between the public calls the promises of the approvals in the Map are
\* exactly the pending promises, one promise per approval; and every add,
\* addAndShowApprovalRequest, resolve, reject and clear leaves the controller
\* so, having settled the promise of every approval that it removed.
C32_RegisteredIffPending ==
  /\ ApprovalHandles(State) = PendingHandles(State)
  /\ Cardinality(ApprovalHandles(State)) = Len(approvals)
  /\ AfterEveryCall(RemovedSettled)
  /\ \A showApprovalRequest \in ShowApprovalRequests, c \in AddCalls :
       RemovedSettled(AddAndShowResult(showApprovalRequest, c))

\* One approval is pending, one promise is fulfilled and one is rejected.
C32_Witness ==
  /\ approvals # <<>>
  /\ \E h \in 1..Len(handles) : handles[h].state = "fulfilled"
  /\ RejectedHandles(State) # {}

C35_CheckOrder ==
  \A c \in AddCalls :
    LET error == AddResult(c).error IN
    /\ error =
         IF ExplicitFalsyId(c) THEN FalsyIdError
         ELSE IF MissingOrigin(c) THEN MissingOriginError
         ELSE IF IdCollision(c) THEN IdCollisionError
         ELSE IF ExplicitFalsyType(c) THEN FalsyTypeError
         ELSE IF InvalidRequestData(c) THEN InvalidRequestDataError
         ELSE IF OriginTypeCollision(c)
           THEN ResourceUnavailable(getAlreadyPendingMessage(c.origin, EffType(c.type)))
         ELSE NoError
    /\ (c.id \in ApprovalIds(State) /\ Truthy(c.origin) /\ ExplicitFalsyType(c))
         => error = IdCollisionError

\* An approval is pending, and there are adds that fail several checks at
\* once: the pending id with an explicit falsy type, the pending id without
\* an origin, a falsy id without an origin, a falsy type with invalid request
\* data, and invalid request data with the pending origin and type.
C35_Witness ==
  /\ \E c \in AddCalls : IdCollision(c) /\ ExplicitFalsyType(c) /\ ~MissingOrigin(c)
                          /\ AddResult(c).error = IdCollisionError
  /\ \E c \in AddCalls : IdCollision(c) /\ MissingOrigin(c)
                          /\ AddResult(c).error = MissingOriginError
  /\ \E c \in AddCalls : ExplicitFalsyId(c) /\ MissingOrigin(c)
                          /\ AddResult(c).error = FalsyIdError
  /\ \E c \in AddCalls : ExplicitFalsyType(c) /\ InvalidRequestData(c)
                          /\ AddResult(c).error = FalsyTypeError
  /\ \E c \in AddCalls : InvalidRequestData(c) /\ OriginTypeCollision(c)
                          /\ AddResult(c).error = InvalidRequestDataError

\* C36 (as amended): an add without an id, for which nanoid() returns an id
\* that is pending, fails, returns no promise and changes nothing, the approval
\* pending under that id keeping its promise and its entry of the store state;
\* the error is the id collision when the origin is given and not empty, and
\* the missing origin otherwise.
C36_GeneratedIdPending ==
  \A c \in AddCalls :
    (c.id = Undefined /\ c.nano \in ApprovalIds(State)) =>
      LET R == AddResult(c) IN
      /\ R.error = IF Truthy(c.origin) THEN IdCollisionError ELSE MissingOriginError
      /\ R.handle = 0
      /\ NoEffect(R)
      /\ Kept(c.nano, R)

\* C36 as stated: every add without an id, for which nanoid() returns an id
\* that is pending, fails with the id collision and changes nothing.
C36_Original ==
  \A c \in AddCalls :
    (c.id = Undefined /\ c.nano \in ApprovalIds(State)) =>
      /\ AddResult(c).error = IdCollisionError
      /\ NoEffect(AddResult(c))
      /\ Kept(c.nano, AddResult(c))

\* One id is pending and the other is free: an add without an id, of an
\* origin that has nothing pending, is given the pending id by nanoid() and
\* fails with the id collision, where the free id would have been accepted.
C36_Witness ==
  \E c \in AddCalls, free \in Ids \ ApprovalIds(State) :
    /\ c.id = Undefined /\ c.nano \in ApprovalIds(State)
    /\ c.origin \in Origins \ DOMAIN origins
    /\ AddResult(c).error = IdCollisionError
    /\ AddResult([c EXCEPT !.nano = free]).error = NoError

====
